---- MODULE Spec2Model ----
(***************************************************************************)
(* Calendar synchronisation and token lifecycle of Focus-task:             *)
(*   lib/calendar.ts            (src/unnamed/part_000)                     *)
(*   app/api/calendar/events    (POST: create a local event and publish)   *)
(*   app/api/calendar/sync      (POST: pull the remote listing)            *)
(* Every invocation is a chain of awaits; one action is one stretch of     *)
(* code between two awaits, so that invocations can interleave exactly     *)
(* where the code can be suspended.                                        *)
(***************************************************************************)
EXTENDS Integers, Sequences, FiniteSets, TLC

(***************************************************************************)
(* Bounds of the model.                                                    *)
(***************************************************************************)
\* seconds the clock may advance
MaxNow == 1
\* items in one remote listing
MaxListing == 2

Users == {"u1", "u2"}
\* the ids of the events other people keep in a user's remote calendar
ExternalIds == {"e1", "e2"}
Procs == {"p1", "p2"}

(***************************************************************************)
(* JavaScript values.                                                      *)
(***************************************************************************)
Null == "null"
Undefined == "undefined"
\* Boolean(s) / !s / s || d on a string-or-absent value
Truthy(s) == s \notin {Null, Undefined, ""}
\* s ?? d
Nullish(s) == s \in {Null, Undefined}
\* an absent number is <<>>, a present one <<n>>
NoNumber == <<>>
Num(n) == <<n>>
\* account.expires_at ?? 0
OrZero(x) == IF x = NoNumber THEN 0 ELSE x[1]

\* the WhiteSpace and LineTerminator code points of String.prototype.trim
\* that a string of the model can hold: space, TAB, LF, CR, FF, and, written
\* as the characters themselves, VT (U+000B), NBSP (U+00A0), OGHAM SPACE
\* MARK (U+1680) and ZWNBSP (U+FEFF); the remaining ones (U+2000..U+200A,
\* U+2028, U+2029, U+202F, U+205F, U+3000) cannot occur in a string here
IsSpace(ch) ==
    ch \in {" ", "\t", "\n", "\r", "\f", "", " ", " ", "﻿"}

RECURSIVE TrimStart(_)
TrimStart(s) ==
    IF Len(s) > 0 /\ IsSpace(SubSeq(s, 1, 1))
    THEN TrimStart(SubSeq(s, 2, Len(s)))
    ELSE s

RECURSIVE TrimEnd(_)
TrimEnd(s) ==
    IF Len(s) > 0 /\ IsSpace(SubSeq(s, Len(s), Len(s)))
    THEN TrimEnd(SubSeq(s, 1, Len(s) - 1))
    ELSE s

\* String.prototype.trim
Trim(s) == TrimEnd(TrimStart(s))

\* value?.trim(): undefined stays undefined
OptTrim(s) == IF Nullish(s) THEN Undefined ELSE Trim(s)

\* value?.trim() || null
TrimOrNull(s) == IF Truthy(OptTrim(s)) THEN OptTrim(s) ELSE Null

\* the lower-case form of the letters the URL test reads
LowerCh(ch) ==
    CASE ch = "H" -> "h"
      [] ch = "T" -> "t"
      [] ch = "P" -> "p"
      [] ch = "S" -> "s"
      [] OTHER -> ch

RECURSIVE LowerPrefix(_, _)
\* the first n characters of s, lower-cased
LowerPrefix(s, n) ==
    IF n = 0 \/ Len(s) = 0 THEN ""
    ELSE LowerCh(SubSeq(s, 1, 1)) \o LowerPrefix(SubSeq(s, 2, Len(s)), n - 1)

\* /^https?:\/\//i.test(s)
IsHttpUrl(s) ==
    \/ LowerPrefix(s, 7) = "http://"
    \/ LowerPrefix(s, 8) = "https://"

RECURSIVE SplitFrom(_, _, _)
\* the pieces of s between commas, cur being the piece read so far
SplitFrom(s, cur, acc) ==
    IF Len(s) = 0 THEN Append(acc, cur)
    ELSE IF SubSeq(s, 1, 1) = ","
         THEN SplitFrom(SubSeq(s, 2, Len(s)), "", Append(acc, cur))
         ELSE SplitFrom(SubSeq(s, 2, Len(s)), cur \o SubSeq(s, 1, 1), acc)

\* input.split(",")
SplitComma(s) == SplitFrom(s, "", <<>>)

RECURSIVE SeqFilter(_, _)
\* keeps the non-empty strings of sq, order preserved
SeqFilter(sq, i) ==
    IF i > Len(sq) THEN <<>>
    ELSE IF Len(sq[i]) > 0
         THEN <<sq[i]>> \o SeqFilter(sq, i + 1)
         ELSE SeqFilter(sq, i + 1)

(***************************************************************************)
(* Dates.  An instant is a number of minutes after 2024-01-02T00:00Z; a    *)
(* Date object is a valid instant or the Invalid Date.                     *)
(***************************************************************************)
InvalidDate == [kind |-> "invalid"]
NullDate == [kind |-> "null"]
DateOf(t) == [kind |-> "date", t |-> t]

DateTable ==
    { <<"2024-01-02T00:00:00.000Z", 0>>,
      <<"2024-01-02", 0>>,
      <<"2024-01-02T09:00:00.000Z", 540>>,
      <<"2024-01-02T09:00:00Z", 540>>,
      <<"2024-01-02T09:30:00.000Z", 570>>,
      <<"2024-01-02T09:30:00Z", 570>>,
      <<"2024-01-03T00:00:00.000Z", 1440>>,
      <<"2024-01-03", 1440>> }

\* new Date(s)
NewDate(s) ==
    IF \E e \in DateTable : e[1] = s
    THEN DateOf((CHOOSE e \in DateTable : e[1] = s)[2])
    ELSE InvalidDate

\* Date.prototype.toISOString of a valid date
ToISOString(d) ==
    CHOOSE s \in {e[1] : e \in DateTable} :
        /\ NewDate(s) = d
        /\ Len(s) = 24

\* !d on a Date-or-null: only null is falsy, the Invalid Date is an object
DateFalsy(d) == d = NullDate

(***************************************************************************)
(* EventNormalizer.                                                        *)
(***************************************************************************)
AbsentDT == [absent |-> TRUE]

\* a resolution that prefers the date-only field
parseDateTimeDateFirst(value) ==
    IF value = AbsentDT THEN NullDate
    ELSE IF Truthy(value.date) THEN NewDate(value.date \o "T00:00:00.000Z")
    ELSE IF Truthy(value.dateTime) THEN NewDate(value.dateTime)
    ELSE NullDate

parseDateTime(value) ==
    IF value = AbsentDT THEN NullDate
    ELSE IF Truthy(value.dateTime) THEN NewDate(value.dateTime)
    ELSE IF Truthy(value.date) THEN NewDate(value.date \o "T00:00:00.000Z")
    ELSE NullDate

\* a precedence that puts the location before the meeting-room link
getGoogleMeetOrLocationLinkLocationFirst(event) ==
    IF Truthy(event.location) /\ IsHttpUrl(event.location) THEN event.location
    ELSE IF Truthy(event.hangoutLink) THEN event.hangoutLink
    ELSE IF Nullish(event.htmlLink) THEN Null ELSE event.htmlLink

getGoogleMeetOrLocationLink(event) ==
    IF Truthy(event.hangoutLink) THEN event.hangoutLink
    ELSE IF Truthy(event.location) /\ IsHttpUrl(event.location) THEN event.location
    ELSE IF Nullish(event.htmlLink) THEN Null ELSE event.htmlLink

(***************************************************************************)
(* State.                                                                  *)
(***************************************************************************)
VARIABLES
    \* Date.now() in seconds
    now,
    \* the account table: per user the set of its provider="google" rows
    accounts,
    \* the calendarEvent table: a set of rows
    events,
    \* the next local id the calendarEvent table hands out
    nextId,
    \* per user, the number of events the events route has created in its
    \* remote calendar (their ids are n1, n2, ...)
    created,
    \* the number of tokens the provider's token endpoint has issued
    issued,
    \* the invocation of each process: every process serves one request
    calls

vars == <<now, accounts, events, nextId, created, issued, calls>>

NoBody == [none |-> TRUE]
NoResponse == [none |-> TRUE]

\* createGoogleCalendarEvent has not returned
NoEvent == [none |-> TRUE]

\* a process with no invocation in flight
Idle ==
    [ op |-> "idle", pc |-> "idle", user |-> Null,
      \* getGoogleAccessTokenForUser: account, nowSeconds, payload, outcome
      account |-> {}, nowSeconds |-> 0, payload |-> {},
      accessToken |-> Null, tokenError |-> Null, details |-> Null,
      \* the clock when the token endpoint answered the refresh
      grantedAt |-> 0,
      \* requests to the token endpoint, writes to the account row,
      \* list and create requests made by this invocation
      tokenRequests |-> 0, accountWrites |-> 0,
      listRequests |-> 0, createRequests |-> 0,
      \* the account rows and the calendarEvent table when it started
      accounts0 |-> {}, events0 |-> {},
      \* syncGoogleEventsToLocal: googleEvents, loop position, syncedCount
      googleEvents |-> <<>>, idx |-> 0, syncedCount |-> 0,
      \* POST /api/calendar/events: the request body and the locals
      body |-> NoBody, title |-> Null, startAt |-> NullDate, endAt |-> NullDate,
      participants |-> <<>>, externalId |-> Null, syncedMeetLink |-> Null,
      googleEvent |-> NoEvent, googleSyncError |-> Null,
      \* the HTTP response
      status |-> 0, response |-> NoResponse ]

\* the account rows consent may have left: fresh, at the boundary of the
\* freshness test, without expiry, with an empty or no access token, each
\* with and without a refresh token
AccountRows ==
    { [access_token |-> a[1], expires_at |-> a[2], refresh_token |-> r,
       scope |-> "s0", token_type |-> "Bearer"] :
        a \in { <<"at0", Num(61)>>, <<"at0", Num(60)>>, <<"at0", NoNumber>>,
                <<"", Num(61)>>, <<Null, NoNumber>> },
        r \in {Null, "rt0"} }

\* the second user is connected, with a fresh token
InitialAccounts(u) ==
    IF u = "u1"
    THEN {{}} \cup {{r} : r \in AccountRows}
    ELSE {{[access_token |-> "at0", expires_at |-> Num(61),
            refresh_token |-> "rt0", scope |-> "s0",
            token_type |-> "Bearer"]}}

Init ==
    /\ now = 0
    /\ accounts \in [Users -> UNION {InitialAccounts(u) : u \in Users}]
    /\ \A u \in Users : accounts[u] \in InitialAccounts(u)
    /\ events = {}
    /\ nextId = 1
    /\ created = [u \in Users |-> 0]
    /\ issued = 0
    /\ calls = [p \in Procs |-> Idle]

(***************************************************************************)
(* The provider.                                                           *)
(***************************************************************************)
\* the bodies of the provider's error responses
ErrorBodies == {"invalid_grant"}

\* the n-th access token and refresh token the token endpoint issues
AccessTokenNo(n) == "at" \o ToString(n)
RefreshTokenNo(n) == "rt" \o ToString(n)

\* the successful responses of the token endpoint to the n-th refresh: a
\* bare one, and one that carries every optional field and a token that
\* is stale as soon as it is stored
RefreshPayloads(n) ==
    { [ access_token |-> AccessTokenNo(n), expires_in |-> 61,
        refresh_token |-> Undefined, scope |-> Undefined,
        token_type |-> Undefined ],
      [ access_token |-> AccessTokenNo(n), expires_in |-> 60,
        refresh_token |-> RefreshTokenNo(n), scope |-> "s1",
        token_type |-> "bearer" ] }

\* the ids of a calendar's events: ExternalIds are the events other people
\* made, n1, n2, ... the ones the events route created; the provider
\* gives a new event an id no event of that calendar has
CreatedId(n) == "n" \o ToString(n)

\* what a remote event can look like, its id apart
ShapeTimed ==
    [ status |-> "confirmed", summary |-> "Standup",
      start |-> [dateTime |-> "2024-01-02T09:00:00Z", date |-> Undefined],
      end |-> [dateTime |-> "2024-01-02T09:30:00Z", date |-> Undefined],
      attendees |-> <<[email |-> "a@x.com"], [email |-> Undefined]>>,
      location |-> "Room 1",
      hangoutLink |-> "https://meet.google.com/abc",
      htmlLink |-> "https://calendar.google.com/event" ]

ShapeAllDay ==
    [ status |-> "confirmed", summary |-> Undefined,
      start |-> [dateTime |-> Undefined, date |-> "2024-01-02"],
      end |-> [dateTime |-> Undefined, date |-> "2024-01-03"],
      attendees |-> <<>>,
      location |-> Undefined,
      hangoutLink |-> Undefined,
      htmlLink |-> Undefined ]

ShapeCancelled ==
    [ status |-> "cancelled", summary |-> "Standup",
      start |-> [dateTime |-> "2024-01-02T09:00:00Z", date |-> Undefined],
      end |-> [dateTime |-> "2024-01-02T09:30:00Z", date |-> Undefined],
      attendees |-> <<>>,
      location |-> Undefined,
      hangoutLink |-> Undefined,
      htmlLink |-> Undefined ]

ShapeNoTime ==
    [ status |-> "confirmed", summary |-> "Standup",
      start |-> AbsentDT,
      end |-> AbsentDT,
      attendees |-> <<>>,
      location |-> "https://example.com/room",
      hangoutLink |-> Undefined,
      htmlLink |-> Undefined ]

Shapes == {ShapeTimed, ShapeAllDay, ShapeCancelled, ShapeNoTime}

\* an item whose start is no date the runtime can parse
ShapeBadTime ==
    [ShapeTimed EXCEPT !.start = [dateTime |-> "tomorrow", date |-> Undefined]]

Item(id, shape) == [id |-> id] @@ shape

\* the items a listing can hold of a calendar in which the events route
\* created n events: each event in any shape (the calendar's owner and
\* guests edit, cancel and delete at will), and an item that carries no id
ItemsOf(n) ==
    {Item(id, s) : id \in ExternalIds, s \in Shapes}
        \cup {Item(CreatedId(i), s) : i \in 1..n, s \in Shapes}
        \cup {Item(Undefined, ShapeTimed)}

\* the listings: the provider gives no id twice
Listings(n) ==
    { sq \in UNION {[1..k -> ItemsOf(n)] : k \in 0..MaxListing} :
        \A i, j \in DOMAIN sq : i # j => sq[i].id # sq[j].id }

\* the listings that may also hold items with an unparseable start
ListingsWide(n) ==
    { sq \in UNION {[1..k -> ItemsOf(n) \cup {Item(id, ShapeBadTime) : id \in ExternalIds}]
                        : k \in 0..MaxListing} :
        \A i, j \in DOMAIN sq : i # j => sq[i].id # sq[j].id }

(***************************************************************************)
(* TokenManager: getGoogleAccessTokenForUser, one action per await.        *)
(***************************************************************************)
\* getGoogleAccessTokenForUser returned tok to its caller, which sends
\* its request to the calendar API
TokenReturned(c, tok) ==
    IF c.op = "sync"
    THEN [c EXCEPT !.accessToken = tok, !.pc = "list",
                   !.listRequests = @ + 1]
    ELSE [c EXCEPT !.accessToken = tok, !.pc = "create",
                   !.createRequests = @ + 1]

\* a publish that lets the token error escape, as the sync route does
TokenThrewAborts(c, message) ==
    [c EXCEPT !.tokenError = message, !.pc = "done",
              !.status = 500, !.response = [error |-> message]]

\* getGoogleAccessTokenForUser threw: the sync route answers 500, the
\* events route keeps the message and goes on to the local write
TokenThrew(c, message) ==
    IF c.op = "sync"
    THEN [c EXCEPT !.tokenError = message, !.pc = "done",
                   !.status = 500, !.response = [error |-> message]]
    ELSE [c EXCEPT !.tokenError = message, !.pc = "local",
                   !.googleSyncError = message]

\* a freshness test with a buffer of two minutes
CacheHitWideBuffer(account, nowSeconds) ==
    /\ Truthy(account.access_token)
    /\ OrZero(account.expires_at) > nowSeconds + 120

\* the account row is fresh enough to be used as it is
CacheHit(account, nowSeconds) ==
    /\ Truthy(account.access_token)
    /\ OrZero(account.expires_at) > nowSeconds + 60

\* a lookup that refreshes without looking for the refresh token
TokenDecisionNoRefreshCheck(found, nowSeconds) ==
    IF found = {} THEN "not connected"
    ELSE IF CacheHit(CHOOSE a \in found : TRUE, nowSeconds) THEN "cached"
    ELSE "refresh"

\* a lookup that takes a missing row for a row without refresh token
TokenDecisionNoAccountCheck(found, nowSeconds) ==
    IF found = {} THEN "no refresh token"
    ELSE IF CacheHit(CHOOSE a \in found : TRUE, nowSeconds) THEN "cached"
    ELSE IF ~Truthy((CHOOSE a \in found : TRUE).refresh_token) THEN "no refresh token"
    ELSE "refresh"

\* what getGoogleAccessTokenForUser does with the rows findFirst found
TokenDecision(found, nowSeconds) ==
    IF found = {} THEN "not connected"
    ELSE IF CacheHit(CHOOSE a \in found : TRUE, nowSeconds) THEN "cached"
    ELSE IF ~Truthy((CHOOSE a \in found : TRUE).refresh_token) THEN "no refresh token"
    ELSE "refresh"

\* findFirst, the freshness test and the sending of the refresh request
TokenLookup(p) ==
    LET c == calls[p]
        found == accounts[c.user]
        seen == [c EXCEPT !.account = found, !.nowSeconds = now]
        decision == TokenDecision(found, now)
    IN  /\ c.pc = "token"
        /\ calls' = [calls EXCEPT ![p] =
              CASE decision = "not connected" ->
                     TokenThrew(c, "Google account not connected")
                [] decision = "cached" ->
                     TokenReturned(seen, (CHOOSE a \in found : TRUE).access_token)
                [] decision = "no refresh token" ->
                     TokenThrew(seen,
                         "Google refresh token missing. Re-authenticate with Google.")
                [] OTHER ->
                     [seen EXCEPT !.pc = "refresh", !.tokenRequests = @ + 1]]
        /\ UNCHANGED <<now, accounts, events, nextId, created, issued>>

\* a message that drops the response body
RefreshFailureNoDetails(details) == "Failed to refresh Google token"

\* the message of the error thrown for a rejected refresh
RefreshFailure(details) == "Failed to refresh Google token: " \o details

\* a rejected refresh that is tried again from the lookup
RefreshRejectedRetries(p) ==
    LET c == calls[p]
    IN  /\ c.pc = "refresh"
        /\ calls' = [calls EXCEPT ![p] = [c EXCEPT !.pc = "token"]]
        /\ UNCHANGED <<now, accounts, events, nextId, created, issued>>

\* the token endpoint rejects the refresh
RefreshRejected(p) ==
    LET c == calls[p]
    IN  /\ c.pc = "refresh"
        /\ \E details \in ErrorBodies :
              calls' = [calls EXCEPT ![p] =
                  TokenThrew([c EXCEPT !.details = details],
                             RefreshFailure(details))]
        /\ UNCHANGED <<now, accounts, events, nextId, created, issued>>

\* the token endpoint answers the refresh with a payload
RefreshGranted(p) ==
    LET c == calls[p]
    IN  /\ c.pc = "refresh"
        /\ issued' = issued + 1
        /\ \E payload \in RefreshPayloads(issued + 1) :
              calls' = [calls EXCEPT ![p] =
                  [c EXCEPT !.payload = {payload}, !.grantedAt = now,
                            !.pc = "write"]]
        /\ UNCHANGED <<now, accounts, events, nextId, created>>

\* a payload whose token lives a second longer than the others
LongPayload(n) ==
    [ access_token |-> AccessTokenNo(n), expires_in |-> 62,
      refresh_token |-> Undefined, scope |-> Undefined,
      token_type |-> Undefined ]

\* the token endpoint answers the refresh with the longer-lived payload
RefreshGrantedLong(p) ==
    LET c == calls[p]
    IN  /\ c.pc = "refresh"
        /\ issued' = issued + 1
        /\ calls' = [calls EXCEPT ![p] =
              [c EXCEPT !.payload = {LongPayload(issued + 1)},
                        !.grantedAt = now, !.pc = "write"]]
        /\ UNCHANGED <<now, accounts, events, nextId, created>>

\* an update that stores the lifetime in place of the expiry
RefreshedRowNoClock(account, nowSeconds, payload) ==
    [ access_token |-> payload.access_token,
      expires_at |-> Num(payload.expires_in),
      refresh_token |-> IF Nullish(payload.refresh_token)
                        THEN account.refresh_token
                        ELSE payload.refresh_token,
      scope |-> IF Nullish(payload.scope)
                THEN account.scope ELSE payload.scope,
      token_type |-> IF Nullish(payload.token_type)
                     THEN account.token_type ELSE payload.token_type ]

\* an update that writes the payload's refresh token even when it has none
RefreshedRowClearsRefresh(account, nowSeconds, payload) ==
    [ access_token |-> payload.access_token,
      expires_at |-> Num(nowSeconds + payload.expires_in),
      refresh_token |-> IF Nullish(payload.refresh_token)
                        THEN Null ELSE payload.refresh_token,
      scope |-> IF Nullish(payload.scope)
                THEN account.scope ELSE payload.scope,
      token_type |-> IF Nullish(payload.token_type)
                     THEN account.token_type ELSE payload.token_type ]

\* the data of prisma.account.update
RefreshedRow(account, nowSeconds, payload) ==
    [ access_token |-> payload.access_token,
      expires_at |-> Num(nowSeconds + payload.expires_in),
      refresh_token |-> IF Nullish(payload.refresh_token)
                        THEN account.refresh_token
                        ELSE payload.refresh_token,
      scope |-> IF Nullish(payload.scope)
                THEN account.scope ELSE payload.scope,
      token_type |-> IF Nullish(payload.token_type)
                     THEN account.token_type ELSE payload.token_type ]

\* an update that gives way when the row has changed since it was read
AccountUpdateUnlessChanged(p) ==
    LET c == calls[p]
        account == CHOOSE a \in c.account : TRUE
        payload == CHOOSE x \in c.payload : TRUE
    IN  /\ c.pc = "write"
        /\ accounts' = [accounts EXCEPT ![c.user] =
                          IF @ = c.account
                          THEN {RefreshedRow(account, c.nowSeconds, payload)}
                          ELSE @]
        /\ calls' = [calls EXCEPT ![p] =
              TokenReturned([c EXCEPT !.accountWrites = @ + 1],
                            payload.access_token)]
        /\ UNCHANGED <<now, events, nextId, created, issued>>

\* an update that computes the expiry from the clock at the write
AccountUpdateLateClock(p) ==
    LET c == calls[p]
        account == CHOOSE a \in c.account : TRUE
        payload == CHOOSE x \in c.payload : TRUE
    IN  /\ c.pc = "write"
        /\ accounts' = [accounts EXCEPT ![c.user] =
                          {RefreshedRow(account, now, payload)}]
        /\ calls' = [calls EXCEPT ![p] =
              TokenReturned([c EXCEPT !.accountWrites = @ + 1],
                            payload.access_token)]
        /\ UNCHANGED <<now, events, nextId, created, issued>>

\* prisma.account.update and the return of the new access token
AccountUpdate(p) ==
    LET c == calls[p]
        account == CHOOSE a \in c.account : TRUE
        payload == CHOOSE x \in c.payload : TRUE
    IN  /\ c.pc = "write"
        /\ accounts' = [accounts EXCEPT ![c.user] =
                          {RefreshedRow(account, c.nowSeconds, payload)}]
        /\ calls' = [calls EXCEPT ![p] =
              TokenReturned([c EXCEPT !.accountWrites = @ + 1],
                            payload.access_token)]
        /\ UNCHANGED <<now, events, nextId, created, issued>>

(***************************************************************************)
(* The calendarEvent table.  (userId, externalId) is its compound unique   *)
(* key userId_externalId; rows with a null externalId never conflict.      *)
(***************************************************************************)
\* a lookup that reads the key in the other users' rows
RowsWithKeyWrongUser(rows, userId, externalId) ==
    {r \in rows : r.userId # userId /\ r.externalId = externalId}

\* the rows with the key (userId, externalId)
RowsWithKey(rows, userId, externalId) ==
    {r \in rows : r.userId = userId /\ r.externalId = externalId}

\* whether inserting a row with this key breaks the unique key
UniqueViolation(rows, userId, externalId) ==
    /\ externalId # Null
    /\ RowsWithKey(rows, userId, externalId) # {}

RECURSIVE AttendeeEmails(_, _)
\* (event.attendees ?? []).map(entry => entry.email).filter(Boolean);
\* an event without attendees carries the empty list here
AttendeeEmails(attendees, i) ==
    IF i > Len(attendees) THEN <<>>
    ELSE IF Truthy(attendees[i].email)
         THEN <<attendees[i].email>> \o AttendeeEmails(attendees, i + 1)
         ELSE AttendeeEmails(attendees, i + 1)

\* event.summary || "Untitled event"
TitleOf(event) == IF Truthy(event.summary) THEN event.summary ELSE "Untitled event"

\* an update branch that leaves the source as it is
UpdatedRowKeepsSource(r, event, start, end) ==
    [r EXCEPT !.title = TitleOf(event),
              !.startAt = start,
              !.endAt = end,
              !.participants = AttendeeEmails(event.attendees, 1),
              !.location = IF event.location = Undefined THEN @ ELSE event.location,
              !.meetLink = getGoogleMeetOrLocationLink(event)]

\* the update branch of the upsert; an undefined location is not written
UpdatedRow(r, event, start, end) ==
    [r EXCEPT !.title = TitleOf(event),
              !.startAt = start,
              !.endAt = end,
              !.participants = AttendeeEmails(event.attendees, 1),
              !.location = IF event.location = Undefined THEN @ ELSE event.location,
              !.meetLink = getGoogleMeetOrLocationLink(event),
              !.source = "google"]

\* a create branch that tags its row as the app's
CreatedRowTaggedApp(id, userId, event, start, end) ==
    [ id |-> id,
      userId |-> userId,
      title |-> TitleOf(event),
      startAt |-> start,
      endAt |-> end,
      participants |-> AttendeeEmails(event.attendees, 1),
      location |-> IF event.location = Undefined THEN Null ELSE event.location,
      meetLink |-> getGoogleMeetOrLocationLink(event),
      source |-> "app",
      externalId |-> event.id ]

\* the create branch of the upsert
CreatedRow(id, userId, event, start, end) ==
    [ id |-> id,
      userId |-> userId,
      title |-> TitleOf(event),
      startAt |-> start,
      endAt |-> end,
      participants |-> AttendeeEmails(event.attendees, 1),
      location |-> IF event.location = Undefined THEN Null ELSE event.location,
      meetLink |-> getGoogleMeetOrLocationLink(event),
      source |-> "google",
      externalId |-> event.id ]

\* an upsert that also clears the user's rows without external id
UpsertPrunes(rows, id, userId, event, start, end) ==
    LET kept == {r \in rows : ~(r.userId = userId /\ r.externalId = Null)}
    IN  IF RowsWithKey(kept, userId, event.id) # {}
        THEN { IF r \in RowsWithKey(kept, userId, event.id)
               THEN UpdatedRow(r, event, start, end) ELSE r : r \in kept }
        ELSE kept \cup {CreatedRow(id, userId, event, start, end)}

\* an upsert that always inserts
UpsertInsertOnly(rows, id, userId, event, start, end) ==
    rows \cup {CreatedRow(id, userId, event, start, end)}

\* prisma.calendarEvent.upsert on userId_externalId
Upsert(rows, id, userId, event, start, end) ==
    IF RowsWithKey(rows, userId, event.id) # {}
    THEN { IF r \in RowsWithKey(rows, userId, event.id)
           THEN UpdatedRow(r, event, start, end) ELSE r : r \in rows }
    ELSE rows \cup {CreatedRow(id, userId, event, start, end)}

(***************************************************************************)
(* SyncReconciler: POST /api/calendar/sync and syncGoogleEventsToLocal.    *)
(***************************************************************************)
StartSync(p, u) ==
    /\ calls[p].pc = "idle"
    /\ calls' = [calls EXCEPT ![p] =
          [Idle EXCEPT !.op = "sync", !.pc = "token", !.user = u,
                       !.accounts0 = accounts[u], !.events0 = events]]
    /\ UNCHANGED <<now, accounts, events, nextId, created, issued>>

\* a rejected list request taken for an empty calendar
ListRejectedAsEmpty(p) ==
    LET c == calls[p]
    IN  /\ c.pc = "list"
        /\ \E details \in ErrorBodies :
              calls' = [calls EXCEPT ![p] =
                  [c EXCEPT !.pc = "loop", !.idx = 1, !.details = details]]
        /\ UNCHANGED <<now, accounts, events, nextId, created, issued>>

\* listGoogleCalendarEvents: the calendar API rejects the list request
ListRejected(p) ==
    LET c == calls[p]
    IN  /\ c.pc = "list"
        /\ \E details \in ErrorBodies :
              calls' = [calls EXCEPT ![p] =
                  [c EXCEPT !.pc = "done", !.status = 500, !.details = details,
                            !.response = [error |->
                                "Failed to fetch Google Calendar events: " \o details]]]
        /\ UNCHANGED <<now, accounts, events, nextId, created, issued>>

\* listGoogleCalendarEvents: the calendar API answers with items
ListAnsweredWith(p, items) ==
    LET c == calls[p]
    IN  /\ c.pc = "list"
        /\ calls' = [calls EXCEPT ![p] =
              [c EXCEPT !.googleEvents = items, !.idx = 1, !.pc = "loop"]]
        /\ UNCHANGED <<now, accounts, events, nextId, created, issued>>

\* listGoogleCalendarEvents: payload.items ?? [], whatever the calendar
\* holds by now
ListAnswered(p) ==
    /\ calls[p].pc = "list"
    /\ \E items \in Listings(created[calls[p].user]) : ListAnsweredWith(p, items)

\* the item is passed over by the first continue
SkippedCancelled(event) == ~Truthy(event.id) \/ event.status = "cancelled"

\* the item is passed over by the second continue
SkippedInvalidTime(event) ==
    DateFalsy(parseDateTime(event.start)) \/ DateFalsy(parseDateTime(event.end))

\* a loop step that decides between update and create from the rows the
\* pass found when it started
SyncItemFromSnapshot(p) ==
    LET c == calls[p]
        event == c.googleEvents[c.idx]
        start == parseDateTime(event.start)
        end == parseDateTime(event.end)
    IN  /\ c.pc = "loop"
        /\ c.idx <= Len(c.googleEvents)
        /\ IF SkippedCancelled(event) \/ SkippedInvalidTime(event)
           THEN /\ calls' = [calls EXCEPT ![p] = [c EXCEPT !.idx = @ + 1]]
                /\ UNCHANGED <<events, nextId>>
           ELSE IF start = InvalidDate \/ end = InvalidDate
           THEN \* the table rejects an Invalid Date: the upsert throws
                /\ calls' = [calls EXCEPT ![p] =
                      [c EXCEPT !.pc = "done", !.status = 500,
                                !.response = [error |-> "Invalid value provided"]]]
                /\ UNCHANGED <<events, nextId>>
           ELSE /\ events' = IF RowsWithKey(c.events0, c.user, event.id) # {}
                             THEN Upsert(events, nextId, c.user, event, start, end)
                             ELSE events \cup
                                    {CreatedRow(nextId, c.user, event, start, end)}
                /\ nextId' = IF RowsWithKey(c.events0, c.user, event.id) # {}
                              THEN nextId ELSE nextId + 1
                /\ calls' = [calls EXCEPT ![p] =
                      [c EXCEPT !.idx = @ + 1, !.syncedCount = @ + 1]]
        /\ UNCHANGED <<now, accounts, created, issued>>

\* a loop that takes the listing from its end
SyncItemBackwards(p) ==
    LET c == calls[p]
        event == c.googleEvents[Len(c.googleEvents) + 1 - c.idx]
        start == parseDateTime(event.start)
        end == parseDateTime(event.end)
    IN  /\ c.pc = "loop"
        /\ c.idx <= Len(c.googleEvents)
        /\ IF SkippedCancelled(event) \/ SkippedInvalidTime(event)
           THEN /\ calls' = [calls EXCEPT ![p] = [c EXCEPT !.idx = @ + 1]]
                /\ UNCHANGED <<events, nextId>>
           ELSE IF start = InvalidDate \/ end = InvalidDate
           THEN /\ calls' = [calls EXCEPT ![p] =
                      [c EXCEPT !.pc = "done", !.status = 500,
                                !.response = [error |-> "Invalid value provided"]]]
                /\ UNCHANGED <<events, nextId>>
           ELSE /\ events' = Upsert(events, nextId, c.user, event, start, end)
                /\ nextId' = IF RowsWithKey(events, c.user, event.id) # {}
                              THEN nextId ELSE nextId + 1
                /\ calls' = [calls EXCEPT ![p] =
                      [c EXCEPT !.idx = @ + 1, !.syncedCount = @ + 1]]
        /\ UNCHANGED <<now, accounts, created, issued>>

\* one turn of the for loop
SyncItem(p) ==
    LET c == calls[p]
        event == c.googleEvents[c.idx]
        start == parseDateTime(event.start)
        end == parseDateTime(event.end)
    IN  /\ c.pc = "loop"
        /\ c.idx <= Len(c.googleEvents)
        /\ IF SkippedCancelled(event) \/ SkippedInvalidTime(event)
           THEN /\ calls' = [calls EXCEPT ![p] = [c EXCEPT !.idx = @ + 1]]
                /\ UNCHANGED <<events, nextId>>
           ELSE IF start = InvalidDate \/ end = InvalidDate
           THEN \* the table rejects an Invalid Date: the upsert throws
                /\ calls' = [calls EXCEPT ![p] =
                      [c EXCEPT !.pc = "done", !.status = 500,
                                !.response = [error |-> "Invalid value provided"]]]
                /\ UNCHANGED <<events, nextId>>
           ELSE /\ events' = Upsert(events, nextId, c.user, event, start, end)
                /\ nextId' = IF RowsWithKey(events, c.user, event.id) # {}
                              THEN nextId ELSE nextId + 1
                /\ calls' = [calls EXCEPT ![p] =
                      [c EXCEPT !.idx = @ + 1, !.syncedCount = @ + 1]]
        /\ UNCHANGED <<now, accounts, created, issued>>

\* result.<name> as NextResponse.json writes it: absent when undefined
JsonField(obj, name) == IF name \in DOMAIN obj THEN Num(obj[name]) ELSE NoNumber

\* what syncGoogleEventsToLocal returns
SyncResult(c) == [syncedCount |-> c.syncedCount]

\* the body of the sync route's answer
SyncResponse(result) ==
    [ synced |-> JsonField(result, "syncedCount"),
      totalFromGoogle |-> JsonField(result, "totalFromGoogle"),
      skippedCancelled |-> JsonField(result, "skippedCancelled"),
      skippedInvalidTime |-> JsonField(result, "skippedInvalidTime") ]

\* the loop is over: return { syncedCount } and the route's answer
SyncReturn(p) ==
    LET c == calls[p]
    IN  /\ c.pc = "loop"
        /\ c.idx > Len(c.googleEvents)
        /\ calls' = [calls EXCEPT ![p] =
              [c EXCEPT !.pc = "done", !.status = 200,
                        !.response = SyncResponse(SyncResult(c))]]
        /\ UNCHANGED <<now, accounts, events, nextId, created, issued>>

(***************************************************************************)
(* EventPublisher: POST /api/calendar/events and createGoogleCalendarEvent.*)
(***************************************************************************)
RECURSIVE TrimAll(_, _)
\* .map(entry => entry.trim())
TrimAll(sq, i) ==
    IF i > Len(sq) THEN <<>> ELSE <<Trim(sq[i])>> \o TrimAll(sq, i + 1)

\* the request's participants are a string, an array of strings, or
\* anything else (absent included)
parseParticipants(input) ==
    IF input.kind = "array" THEN SeqFilter(TrimAll(input.value, 1), 1)
    ELSE IF input.kind = "string"
         THEN SeqFilter(TrimAll(SplitComma(input.value), 1), 1)
         ELSE <<>>

\* the request bodies
ValidTimes == [startAt |-> "2024-01-02T09:00:00Z", endAt |-> "2024-01-02T09:30:00Z"]

BodyStandup ==
    [ title |-> "Standup"
    , participants |-> [kind |-> "string", value |-> "a@x.com, b@x.com"]
    , location |-> Undefined, meetLink |-> Undefined ] @@ ValidTimes

BodyPadded ==
    [ title |-> "\r\n Review \f"
    , participants |-> [kind |-> "array", value |-> <<" a@x.com ", "a@x.com", " ">>]
    , location |-> " Room 2 ", meetLink |-> " https://meet.example.com/m " ] @@ ValidTimes

BodyBlankTitle == [BodyStandup EXCEPT !.title = " \t\r\n\f"]
BodyNoTitle == [BodyStandup EXCEPT !.title = Undefined]
BodyNoEnd == [BodyStandup EXCEPT !.endAt = Undefined]
BodyBadStart == [BodyStandup EXCEPT !.startAt = "tomorrow"]
BodyEndIsStart == [BodyStandup EXCEPT !.endAt = "2024-01-02T09:00:00.000Z"]
BodyEndBeforeStart == [BodyStandup EXCEPT !.endAt = "2024-01-02"]

Bodies ==
    { BodyStandup, BodyPadded, BodyBlankTitle, BodyNoTitle, BodyNoEnd,
      BodyBadStart, BodyEndIsStart, BodyEndBeforeStart }

\* body.startAt ? new Date(body.startAt) : null
BodyDate(s) == IF Truthy(s) THEN NewDate(s) ELSE NullDate

\* a validation that lets an end equal to the start pass
ValidationErrorAllowsEqual(body) ==
    LET title == OptTrim(body.title)
        startAt == BodyDate(body.startAt)
        endAt == BodyDate(body.endAt)
    IN  IF ~Truthy(title) THEN "Title is required"
        ELSE IF startAt \in {NullDate, InvalidDate} \/ endAt \in {NullDate, InvalidDate}
        THEN "Valid start and end time are required"
        ELSE IF endAt.t < startAt.t THEN "End time must be after start time"
        ELSE Null

\* the message of the 400 answer, or Null for a body that passes
ValidationError(body) ==
    LET title == OptTrim(body.title)
        startAt == BodyDate(body.startAt)
        endAt == BodyDate(body.endAt)
    IN  IF ~Truthy(title) THEN "Title is required"
        ELSE IF startAt \in {NullDate, InvalidDate} \/ endAt \in {NullDate, InvalidDate}
        THEN "Valid start and end time are required"
        ELSE IF endAt.t <= startAt.t THEN "End time must be after start time"
        ELSE Null

\* the route up to the call of createGoogleCalendarEvent
StartPublish(p, u, body) ==
    /\ calls[p].pc = "idle"
    /\ calls' = [calls EXCEPT ![p] =
          LET c == [Idle EXCEPT !.op = "publish", !.user = u, !.body = body,
                                !.accounts0 = accounts[u], !.events0 = events]
          IN  IF ValidationError(body) # Null
              THEN [c EXCEPT !.pc = "done", !.status = 400,
                             !.response = [error |-> ValidationError(body)]]
              ELSE [c EXCEPT !.pc = "token",
                             !.title = OptTrim(body.title),
                             !.startAt = BodyDate(body.startAt),
                             !.endAt = BodyDate(body.endAt),
                             !.participants = parseParticipants(body.participants),
                             !.syncedMeetLink = TrimOrNull(body.meetLink)]]
    /\ UNCHANGED <<now, accounts, events, nextId, created, issued>>

\* a rejected create request whose message is dropped
CreateRejectedSilent(p) ==
    LET c == calls[p]
    IN  /\ c.pc = "create"
        /\ \E details \in ErrorBodies :
              calls' = [calls EXCEPT ![p] =
                  [c EXCEPT !.pc = "local", !.details = details]]
        /\ UNCHANGED <<now, accounts, events, nextId, created, issued>>

\* createGoogleCalendarEvent: the calendar API rejects the create request
CreateRejected(p) ==
    LET c == calls[p]
    IN  /\ c.pc = "create"
        /\ \E details \in ErrorBodies :
              calls' = [calls EXCEPT ![p] =
                  [c EXCEPT !.pc = "local", !.details = details,
                            !.googleSyncError =
                                "Failed to create Google Calendar event: " \o details]]
        /\ UNCHANGED <<now, accounts, events, nextId, created, issued>>

\* the links the provider may put on the event it created
CreatedLinks ==
    { [hangoutLink |-> Undefined, htmlLink |-> Undefined],
      [hangoutLink |-> Undefined, htmlLink |-> "https://calendar.google.com/event"],
      [hangoutLink |-> "https://meet.google.com/abc",
       htmlLink |-> "https://calendar.google.com/event"] }

\* the event the provider answers a create request with: the request's
\* JSON body under a new id
CreatedEvent(id, c, links) ==
    [ id |-> id, status |-> "confirmed",
      summary |-> c.title,
      start |-> [dateTime |-> ToISOString(c.startAt), date |-> Undefined],
      end |-> [dateTime |-> ToISOString(c.endAt), date |-> Undefined],
      attendees |-> [i \in DOMAIN SeqFilter(c.participants, 1) |->
                        [email |-> Trim(SeqFilter(c.participants, 1)[i])]],
      location |-> IF Truthy(TrimOrNull(c.body.location))
                   THEN TrimOrNull(c.body.location) ELSE Undefined,
      hangoutLink |-> links.hangoutLink,
      htmlLink |-> links.htmlLink ]

\* createGoogleCalendarEvent: the provider creates the event; the route
\* takes its id and its link
CreateAnswered(p) ==
    LET c == calls[p]
        id == CreatedId(created[c.user] + 1)
    IN  /\ c.pc = "create"
        /\ created' = [created EXCEPT ![c.user] = @ + 1]
        /\ \E links \in CreatedLinks :
              LET meetLink == getGoogleMeetOrLocationLink(CreatedEvent(id, c, links))
              IN  calls' = [calls EXCEPT ![p] =
                      [c EXCEPT !.pc = "local", !.externalId = id,
                                !.googleEvent = [externalId |-> id,
                                                 meetLink |-> meetLink],
                                !.syncedMeetLink =
                                    IF Truthy(meetLink) THEN meetLink ELSE @]]
        /\ UNCHANGED <<now, accounts, events, nextId, issued>>

\* a row that takes its meet link from the request alone
PublishedRowCallerLink(id, c) ==
    [ id |-> id,
      userId |-> c.user,
      title |-> c.title,
      startAt |-> c.startAt,
      endAt |-> c.endAt,
      participants |-> c.participants,
      location |-> TrimOrNull(c.body.location),
      meetLink |-> TrimOrNull(c.body.meetLink),
      source |-> IF Truthy(c.externalId) THEN "app+google" ELSE "app",
      externalId |-> c.externalId ]

\* the data of prisma.calendarEvent.create
PublishedRow(id, c) ==
    [ id |-> id,
      userId |-> c.user,
      title |-> c.title,
      startAt |-> c.startAt,
      endAt |-> c.endAt,
      participants |-> c.participants,
      location |-> TrimOrNull(c.body.location),
      meetLink |-> c.syncedMeetLink,
      source |-> IF Truthy(c.externalId) THEN "app+google" ELSE "app",
      externalId |-> c.externalId ]

\* prisma.calendarEvent.create and the 201 answer; a broken unique key
\* makes create throw, which the outer catch answers with 500
LocalCreate(p) ==
    LET c == calls[p]
    IN  /\ c.pc = "local"
        /\ IF UniqueViolation(events, c.user, c.externalId)
           THEN /\ calls' = [calls EXCEPT ![p] =
                      [c EXCEPT !.pc = "done", !.status = 500,
                                !.response = [error |-> "Unique constraint failed"]]]
                /\ UNCHANGED <<events, nextId>>
           ELSE /\ events' = events \cup {PublishedRow(nextId, c)}
                /\ nextId' = nextId + 1
                /\ calls' = [calls EXCEPT ![p] =
                      [c EXCEPT !.pc = "done", !.status = 201,
                                !.response = [event |-> PublishedRow(nextId, c),
                                              googleSyncError |-> c.googleSyncError]]]
        /\ UNCHANGED <<now, accounts, created, issued>>

(***************************************************************************)
(* The environment, and the specifications.                                *)
(***************************************************************************)
\* the answer has left the server and the invocation's locals are gone
Return(p) ==
    /\ calls[p].pc = "done"
    /\ calls' = [calls EXCEPT ![p] = [Idle EXCEPT !.pc = "returned"]]
    /\ UNCHANGED <<now, accounts, events, nextId, created, issued>>

\* a second passes
Tick ==
    /\ now < MaxNow
    /\ now' = now + 1
    /\ UNCHANGED <<accounts, events, nextId, created, issued, calls>>

\* the steps of the invocation of process p
Step(p) ==
    \/ TokenLookup(p)
    \/ RefreshRejected(p)
    \/ RefreshGranted(p)
    \/ AccountUpdate(p)
    \/ ListRejected(p)
    \/ ListAnswered(p)
    \/ SyncItem(p)
    \/ SyncReturn(p)
    \/ CreateRejected(p)
    \/ CreateAnswered(p)
    \/ LocalCreate(p)

\* the requests a process may be given
Start(p) ==
    \/ \E u \in Users : StartSync(p, u)
    \/ \E u \in Users, body \in Bodies : StartPublish(p, u, body)

\* the invocation of p is over and its answer has left
Returned(p) == calls[p].pc = "returned"

\* the first request is answered and the second has not arrived; the
\* clock counts from the arrival of the first request
Quiet == Returned("p1") /\ calls["p2"].pc = "idle"

\* one invocation after the other: the second request arrives when the
\* first is answered, and an invocation takes less than a second
Next ==
    \/ Start("p1")
    \/ Step("p1")
    \/ Return("p1")
    \/ Returned("p1") /\ Start("p2")
    \/ Step("p2")
    \/ Quiet /\ Tick

Spec == Init /\ [][Next]_vars

\* the token steps of an invocation
TokenStep(p) ==
    \/ TokenLookup(p)
    \/ RefreshRejected(p)
    \/ RefreshGranted(p)
    \/ AccountUpdate(p)

\* the calendar has not changed since the first pass listed it
ListUnchanged(p, first) ==
    /\ calls[first].pc = "done"
    /\ calls[first].status = 200
    /\ ListAnsweredWith(p, calls[first].googleEvents)

\* two sync passes of one user, one after the other, over a remote
\* calendar that does not change; the answer of the first pass is kept
NextTwice ==
    \/ \E u \in Users : StartSync("p1", u)
    \/ TokenStep("p1")
    \/ ListRejected("p1")
    \/ ListAnswered("p1")
    \/ SyncItem("p1")
    \/ SyncReturn("p1")
    \/ calls["p1"].pc = "done" /\ StartSync("p2", calls["p1"].user)
    \/ TokenStep("p2")
    \/ ListRejected("p2")
    \/ ListUnchanged("p2", "p1")
    \/ SyncItem("p2")
    \/ SyncReturn("p2")
    \/ (\A p \in Procs : calls[p].pc \in {"idle", "done"}) /\ Tick

SpecTwice == Init /\ [][NextTwice]_vars

\* the two invocations interleave at their awaits
NextConcurrent ==
    \/ \E p \in Procs : Start(p)
    \/ \E p \in Procs : Step(p)
    \/ Tick

SpecConcurrent == Init /\ [][NextConcurrent]_vars

\* the other process
Other(p) == CHOOSE q \in Procs : q # p

\* the invocation has its listing
HasListed(c) == c.pc = "loop" \/ (c.pc = "done" /\ c.listRequests = 1 /\ c.details = Null)

\* the calendar does not change while the two passes run: the pass that
\* lists second is given the listing of the first
ListSame(p) ==
    IF HasListed(calls[Other(p)])
    THEN ListAnsweredWith(p, calls[Other(p)].googleEvents)
    ELSE ListAnswered(p)

\* two sync passes of one user that interleave at their awaits, the second
\* request arriving at any time after the first; the clock moves between
\* the first pass's reading of it and the second's
NextSyncs ==
    \/ \E u \in Users : StartSync("p1", u)
    \/ calls["p1"].pc # "idle" /\ StartSync("p2", calls["p1"].user)
    \/ \E p \in Procs :
          \/ TokenStep(p)
          \/ ListRejected(p)
          \/ ListSame(p)
          \/ SyncItem(p)
          \/ SyncReturn(p)
    \/ /\ calls["p1"].pc \notin {"idle", "token"}
       /\ calls["p2"].pc \in {"idle", "token"}
       /\ Tick

SpecSyncs == Init /\ [][NextSyncs]_vars

\* listGoogleCalendarEvents answers with items some of which may carry an
\* unparseable start
ListAnsweredWide(p) ==
    /\ calls[p].pc = "list"
    /\ \E items \in ListingsWide(created[calls[p].user]) : ListAnsweredWith(p, items)

\* the steps of a sync pass over such a listing
PassStep(p) ==
    \/ TokenStep(p)
    \/ ListRejected(p)
    \/ ListAnsweredWide(p)
    \/ SyncItem(p)
    \/ SyncReturn(p)

\* two sync passes, one after the other, over any listings
NextPasses ==
    \/ \E u \in Users : StartSync("p1", u)
    \/ PassStep("p1")
    \/ Return("p1")
    \/ Returned("p1") /\ (\E u \in Users : StartSync("p2", u))
    \/ PassStep("p2")
    \/ Quiet /\ Tick

SpecPasses == Init /\ [][NextPasses]_vars

\* the remote events the normalizer is given: every combination of a
\* meeting-room link, a location (none, plain text, URLs, text that holds
\* a URL), a web link, and a start (none, either field, both, no field)
LocationInputs ==
    { Undefined, "Room 1", "http://example.com/room", "https://example.com/room",
      "HTTPS://EXAMPLE.COM/ROOM", "see https://example.com/room", "ftp://example.com" }

StartInputs ==
    {AbsentDT}
        \cup [ dateTime : {Undefined, "2024-01-02T09:00:00Z", "tomorrow"},
               date : {Undefined, "2024-01-02", "2024-01-03"} ]

EventInputs ==
    [ hangoutLink : {Undefined, "https://meet.google.com/abc"},
      location : LocationInputs,
      htmlLink : {Undefined, "https://calendar.google.com/event"},
      start : StartInputs ]

\* the normalizer is handed a remote event
InitNormalizer ==
    /\ now = 0
    /\ accounts = [u \in Users |-> {}]
    /\ events = {}
    /\ nextId = 1
    /\ created = [u \in Users |-> 0]
    /\ issued = 0
    /\ \E event \in EventInputs :
          calls = [p \in Procs |->
                     IF p = "p1"
                     THEN [Idle EXCEPT !.op = "normalize", !.pc = "given",
                                       !.body = event]
                     ELSE Idle]

\* getGoogleMeetOrLocationLink and parseDateTime applied to the event
Normalize(p) ==
    /\ calls[p].pc = "given"
    /\ calls' = [calls EXCEPT ![p] =
          [calls[p] EXCEPT
              !.pc = "done",
              !.response = [meetLink |-> getGoogleMeetOrLocationLink(calls[p].body),
                            start |-> parseDateTime(calls[p].body.start)]]]
    /\ UNCHANGED <<now, accounts, events, nextId, created, issued>>

NextNormalizer == Normalize("p1")

SpecNormalizer == InitNormalizer /\ [][NextNormalizer]_vars

\* a publish and a sync pass of the same user that interleave at their
\* awaits, the sync request arriving at any time after the publish request
NextPublishSync ==
    \/ \E u \in Users, body \in Bodies : StartPublish("p1", u, body)
    \/ calls["p1"].pc # "idle" /\ StartSync("p2", calls["p1"].user)
    \/ \E p \in Procs : TokenStep(p)
    \/ CreateRejected("p1")
    \/ CreateAnswered("p1")
    \/ LocalCreate("p1")
    \/ ListRejected("p2")
    \/ ListAnswered("p2")
    \/ SyncItem("p2")
    \/ SyncReturn("p2")

SpecPublishSync == Init /\ [][NextPublishSync]_vars

\* two invocations of getGoogleAccessTokenForUser for one user, the
\* second arriving any time after the first, under a clock that may
\* advance at any point, a refresh in flight included; the locals of both
\* invocations are kept
NextClock ==
    \/ \E u \in Users : StartSync("p1", u)
    \/ TokenStep("p1")
    \/ RefreshGrantedLong("p1")
    \/ calls["p1"].pc # "idle" /\ StartSync("p2", calls["p1"].user)
    \/ TokenStep("p2")
    \/ RefreshGrantedLong("p2")
    \/ Tick

SpecClock == Init /\ [][NextClock]_vars

(***************************************************************************)
(* Properties.                                                             *)
(***************************************************************************)
\* the rows of a user
RowsOf(rows, u) == {r \in rows : r.userId = u}

\* getGoogleAccessTokenForUser has looked the account up (a draft answered
\* 400 never gets that far)
LookedUp(c) ==
    /\ c.pc \notin {"idle", "token", "returned"}
    /\ ~(c.pc = "done" /\ c.status = 400)

\* the row the invocation found when it started
Row0(c) == CHOOSE a \in c.accounts0 : TRUE

\* the row's access token is there and outlives now + 60 s
FreshAt(row, t) == Truthy(row.access_token) /\ OrZero(row.expires_at) > t + 60

\* the refresh exchange of the invocation succeeded and its row is written
Refreshed(c) == c.payload # {} /\ c.pc # "write"

\* the refresh exchange of the invocation was rejected
RefreshWasRejected(c) ==
    c.tokenRequests = 1 /\ c.payload = {} /\ c.pc # "refresh"

\* the publish of a valid draft is answered and its remote part failed
PublishFailed(c) ==
    /\ c.op = "publish"
    /\ c.pc = "done"
    /\ ValidationError(c.body) = Null
    /\ (c.tokenError # Null \/ c.details # Null)

\* C1: a valid draft whose outbound publish fails (no account row, no
\* refresh token, refresh rejected, create rejected) is still answered 201
\* with exactly one new local row, source "app", externalId null, and the
\* failure's message as googleSyncError.
C1_LocalFirst ==
    \A p \in Procs :
        LET c == calls[p] IN
        PublishFailed(c) =>
            /\ c.status = 201
            /\ c.response.event.source = "app"
            /\ c.response.event.externalId = Null
            /\ c.response.event.userId = c.user
            /\ c.response.googleSyncError # Null
            /\ c.response.googleSyncError =
                  (IF c.tokenError # Null THEN c.tokenError
                   ELSE "Failed to create Google Calendar event: " \o c.details)
            /\ c.response.event \notin c.events0
            /\ events = c.events0 \cup {c.response.event}

\* a publish whose token could not be had has been answered
C1_Witness ==
    \E p \in Procs :
        /\ PublishFailed(calls[p])
        /\ calls[p].tokenError = "Google refresh token missing. Re-authenticate with Google."
        /\ calls[p].status = 201

\* every item has an id, is not cancelled and has a start and an end
AllEligible(items) ==
    \A i \in DOMAIN items :
        /\ Truthy(items[i].id)
        /\ items[i].status # "cancelled"
        /\ parseDateTime(items[i].start) # NullDate
        /\ parseDateTime(items[i].end) # NullDate

\* both passes of SpecTwice are answered 200 over a listing of eligible
\* items, the first having started on a store without rows of the user
TwoPasses ==
    /\ calls["p1"].op = "sync" /\ calls["p1"].pc = "done" /\ calls["p1"].status = 200
    /\ calls["p2"].op = "sync" /\ calls["p2"].pc = "done" /\ calls["p2"].status = 200
    /\ calls["p2"].user = calls["p1"].user
    /\ calls["p2"].googleEvents = calls["p1"].googleEvents
    /\ AllEligible(calls["p1"].googleEvents)
    /\ RowsOf(calls["p1"].events0, calls["p1"].user) = {}

\* C2: two sync passes in sequence over an unchanged listing of N eligible
\* items, from a store without rows of the user, both answer synced = N
\* and leave exactly N rows of the user, one per external id.
C2_SyncIdempotent ==
    TwoPasses =>
        LET items == calls["p1"].googleEvents
            rows == RowsOf(events, calls["p1"].user)
        IN  /\ calls["p1"].response.synced = Num(Len(items))
            /\ calls["p2"].response.synced = Num(Len(items))
            /\ Cardinality(rows) = Len(items)
            /\ {r.externalId : r \in rows} = {items[i].id : i \in DOMAIN items}
            /\ \A i \in DOMAIN items :
                  Cardinality({r \in rows : r.externalId = items[i].id}) = 1

\* two passes over a listing of two eligible items
C2_Witness == TwoPasses /\ Len(calls["p1"].googleEvents) = 2

\* C3: no two rows share (userId, externalId) with a non-null externalId.
C3_UniqueKey ==
    \A r1, r2 \in events :
        (r1.userId = r2.userId /\ r1.externalId = r2.externalId
            /\ r1.externalId # Null) => r1 = r2

\* a sync has upserted an id that a publish had stored before
C3_Witness ==
    \E p \in Procs :
        /\ calls[p].op = "sync" /\ calls[p].pc = "done" /\ calls[p].status = 200
        /\ calls[p].syncedCount = Len(calls[p].googleEvents)
        /\ \E i \in DOMAIN calls[p].googleEvents :
              \E r \in calls[p].events0 :
                  /\ r.userId = calls[p].user
                  /\ r.externalId = calls[p].googleEvents[i].id
                  /\ r.source = "app+google"

\* C4: a row with a non-empty access token and expiresAt > now + 60 makes
\* getGoogleAccessTokenForUser return the stored token without a request
\* to the token endpoint and without a write to the row.
C4_CacheHit ==
    \A p \in Procs :
        LET c == calls[p] IN
        (LookedUp(c) /\ c.accounts0 # {} /\ FreshAt(Row0(c), c.nowSeconds)) =>
            /\ c.accessToken = Row0(c).access_token
            /\ c.tokenError = Null
            /\ c.tokenRequests = 0
            /\ c.accountWrites = 0
            /\ accounts[c.user] = c.accounts0

\* a token that a refresh stored has been served from the row
C4_Witness ==
    \E p \in Procs :
        /\ LookedUp(calls[p])
        /\ calls[p].accounts0 # {}
        /\ FreshAt(Row0(calls[p]), calls[p].nowSeconds)
        /\ calls[p].accessToken = "at1"

\* the row has a refresh token and no usable access token
StaleWithRefresh(row, t) == ~FreshAt(row, t) /\ Truthy(row.refresh_token)

\* C5: a row with a refresh token and no fresh access token (none, or
\* expiresAt <= now + 60, the boundary and a missing expiresAt included)
\* makes exactly one request to the token endpoint; when the exchange
\* succeeds there is exactly one write, which stores the returned access
\* token and expiresAt = now + expires_in, and the new token is returned.
C5_Refresh ==
    \A p \in Procs :
        LET c == calls[p]
            payload == CHOOSE x \in c.payload : TRUE
            row == CHOOSE a \in accounts[c.user] : TRUE
        IN  /\ (LookedUp(c) /\ c.accounts0 # {}
                   /\ StaleWithRefresh(Row0(c), c.nowSeconds)) =>
                  /\ c.tokenRequests = 1
                  /\ c.accountWrites = IF Refreshed(c) THEN 1 ELSE 0
            /\ Refreshed(c) =>
                  /\ StaleWithRefresh(Row0(c), c.nowSeconds)
                  /\ c.tokenRequests = 1
                  /\ c.accountWrites = 1
                  /\ row.access_token = payload.access_token
                  /\ row.expires_at = Num(c.nowSeconds + payload.expires_in)
                  /\ c.accessToken = payload.access_token

\* a row at the boundary expiresAt = now + 60 has been refreshed
C5_Witness ==
    \E p \in Procs :
        /\ Refreshed(calls[p])
        /\ Row0(calls[p]).access_token = "at0"
        /\ Row0(calls[p]).expires_at = Num(calls[p].nowSeconds + 60)

\* C6: the stored refresh token is never cleared: a step changes it only
\* to the refresh token the provider's response carries, and a row that
\* has a refresh token keeps having one.
C6_RefreshTokenKept ==
    [][\A u \in Users :
          accounts[u] # {} =>
            LET old == CHOOSE a \in accounts[u] : TRUE
                new == CHOOSE a \in accounts'[u] : TRUE
            IN  /\ accounts'[u] # {}
                /\ Truthy(old.refresh_token) => Truthy(new.refresh_token)
                /\ new.refresh_token # old.refresh_token =>
                      \E p \in Procs :
                          /\ calls[p].pc = "write"
                          /\ calls[p].user = u
                          /\ new.refresh_token =
                                (CHOOSE x \in calls[p].payload : TRUE).refresh_token
                          /\ Truthy(new.refresh_token)]_vars

\* a refresh whose response carried no refresh token has been written
C6_Witness ==
    \E u \in Users :
        /\ accounts[u] # {}
        /\ (CHOOSE a \in accounts[u] : TRUE).refresh_token = "rt0"
        /\ (CHOOSE a \in accounts[u] : TRUE).access_token = "at1"

\* C7: a row without fresh access token and without refresh token makes
\* getGoogleAccessTokenForUser fail with the refresh-token-missing error,
\* without a request to the token endpoint, the row left as it was.
C7_RefreshTokenMissing ==
    \A p \in Procs :
        LET c == calls[p] IN
        (LookedUp(c) /\ c.accounts0 # {}
            /\ ~FreshAt(Row0(c), c.nowSeconds)
            /\ ~Truthy(Row0(c).refresh_token)) =>
            /\ c.tokenError = "Google refresh token missing. Re-authenticate with Google."
            /\ c.accessToken = Null
            /\ c.tokenRequests = 0
            /\ c.accountWrites = 0
            /\ accounts[c.user] = c.accounts0

\* a row with an expired token and no refresh token has been looked up
C7_Witness ==
    \E p \in Procs :
        /\ LookedUp(calls[p])
        /\ calls[p].accounts0 # {}
        /\ Row0(calls[p]).access_token = "at0"
        /\ Row0(calls[p]).expires_at = Num(60)
        /\ Row0(calls[p]).refresh_token = Null
        /\ calls[p].tokenError # Null

\* C8: without an account row getGoogleAccessTokenForUser fails with the
\* not-connected error, makes no request to the token endpoint and
\* creates or writes no row.
C8_AccountNotConnected ==
    \A p \in Procs :
        LET c == calls[p] IN
        (LookedUp(c) /\ c.accounts0 = {}) =>
            /\ c.tokenError = "Google account not connected"
            /\ c.accessToken = Null
            /\ c.tokenRequests = 0
            /\ c.accountWrites = 0
            /\ accounts[c.user] = {}

\* a sync of a user without account row has been answered
C8_Witness ==
    \E p \in Procs :
        /\ calls[p].op = "sync"
        /\ calls[p].pc = "done"
        /\ calls[p].accounts0 = {}
        /\ calls[p].status = 500

\* C9: a rejected refresh makes getGoogleAccessTokenForUser fail with the
\* refresh-failed error carrying the response body, the row left as it
\* was in every field.
C9_RefreshFailed ==
    \A p \in Procs :
        LET c == calls[p] IN
        RefreshWasRejected(c) =>
            /\ c.details \in ErrorBodies
            /\ c.tokenError = "Failed to refresh Google token: " \o c.details
            /\ c.accessToken = Null
            /\ c.accountWrites = 0
            /\ accounts[c.user] = c.accounts0

\* a sync whose refresh was rejected has been answered
C9_Witness ==
    \E p \in Procs :
        /\ RefreshWasRejected(calls[p])
        /\ calls[p].op = "sync"
        /\ calls[p].pc = "done"
        /\ calls[p].response = [error |-> "Failed to refresh Google token: invalid_grant"]

\* C10: the answer of a successful sync pass carries the four counters,
\* totalFromGoogle being the length of the listing and the sum of the
\* other three.
C10_FourCounters ==
    \A p \in Procs :
        LET c == calls[p] IN
        (c.op = "sync" /\ c.pc = "done" /\ c.status = 200) =>
            /\ c.response.synced # NoNumber
            /\ c.response.totalFromGoogle # NoNumber
            /\ c.response.skippedCancelled # NoNumber
            /\ c.response.skippedInvalidTime # NoNumber
            /\ c.response.totalFromGoogle = Num(Len(c.googleEvents))
            /\ c.response.synced[1] + c.response.skippedCancelled[1]
                  + c.response.skippedInvalidTime[1] = Len(c.googleEvents)

\* a sync pass over a listing of two items has been answered 200 without
\* totalFromGoogle, skippedCancelled and skippedInvalidTime
C10_Witness ==
    \E p \in Procs :
        /\ calls[p].op = "sync" /\ calls[p].pc = "done" /\ calls[p].status = 200
        /\ Len(calls[p].googleEvents) = 2
        /\ calls[p].response.synced = Num(1)
        /\ calls[p].response.totalFromGoogle = NoNumber
        /\ calls[p].response.skippedCancelled = NoNumber
        /\ calls[p].response.skippedInvalidTime = NoNumber

\* a sync pass has been answered 200
SyncDone(c) == c.op = "sync" /\ c.pc = "done" /\ c.status = 200

\* the positions of the listing the first continue passes over
CancelledAt(items) == {i \in DOMAIN items : SkippedCancelled(items[i])}

\* the positions of the listing the second continue passes over
InvalidTimeAt(items) ==
    {i \in DOMAIN items : ~SkippedCancelled(items[i]) /\ SkippedInvalidTime(items[i])}

\* the rows of the table stored under the key (u, id)
Keyed(rows, u, id) == {r \in rows : r.userId = u /\ r.externalId = id}

\* the items at the positions at leave the rows stored under their external
\* ids as the pass found them: none created, none updated, none deleted
LeftAlone(c, at) ==
    \A i \in at :
        Keyed(events, c.user, c.googleEvents[i].id)
            = Keyed(c.events0, c.user, c.googleEvents[i].id)

\* a pass leaves the rows of the items it passes over as it found them
SkipLeavesStore ==
    \A p \in Procs :
        LET c == calls[p] IN
        SyncDone(c) =>
            LeftAlone(c, CancelledAt(c.googleEvents) \cup InvalidTimeAt(c.googleEvents))

\* C11: a sync pass counts every item without id or with status
\* "cancelled" in skippedCancelled and leaves the store as it was for it,
\* a row stored under its external id by an earlier pass included.
C11_SkippedCancelled ==
    \A p \in Procs :
        LET c == calls[p] IN
        SyncDone(c) =>
            /\ c.response.skippedCancelled
                  = Num(Cardinality(CancelledAt(c.googleEvents)))
            /\ LeftAlone(c, CancelledAt(c.googleEvents))

\* a pass over a cancelled item whose row an earlier pass stored has been
\* answered without skippedCancelled, the row as it was
C11_Witness ==
    \E p \in Procs :
        LET c == calls[p] IN
        /\ SyncDone(c)
        /\ \E i \in CancelledAt(c.googleEvents) :
              /\ c.googleEvents[i].status = "cancelled"
              /\ Keyed(c.events0, c.user, c.googleEvents[i].id) # {}
              /\ LeftAlone(c, {i})
        /\ c.response.skippedCancelled = NoNumber

\* C12: a sync pass counts every item with an id, not cancelled, whose
\* start or end resolves to null in skippedInvalidTime and leaves the store
\* as it was for it.
C12_SkippedInvalidTime ==
    \A p \in Procs :
        LET c == calls[p] IN
        SyncDone(c) =>
            /\ c.response.skippedInvalidTime
                  = Num(Cardinality(InvalidTimeAt(c.googleEvents)))
            /\ LeftAlone(c, InvalidTimeAt(c.googleEvents))

\* a pass over an item without start and end has been answered without
\* skippedInvalidTime, no row stored for the item
C12_Witness ==
    \E p \in Procs :
        LET c == calls[p] IN
        /\ SyncDone(c)
        /\ \E i \in InvalidTimeAt(c.googleEvents) :
              /\ c.googleEvents[i].start = AbsentDT
              /\ c.googleEvents[i].end = AbsentDT
              /\ Keyed(events, c.user, c.googleEvents[i].id) = {}
        /\ c.response.skippedInvalidTime = NoNumber

\* the publish is answered and its remote create succeeded
PublishSucceeded(c) ==
    c.op = "publish" /\ c.pc = "done" /\ c.googleEvent # NoEvent

\* C13: when the remote create succeeds, the publish creates exactly one
\* local row, with source "app+google", the external id of the remote
\* response, and as meet link the link resolved from the remote response
\* when there is one, else the request's trimmed meet link, else null.
C13_PublishedRow ==
    \A p \in Procs :
        LET c == calls[p] IN
        PublishSucceeded(c) =>
            /\ c.status = 201
            /\ c.response.event.source = "app+google"
            /\ c.response.event.externalId = c.googleEvent.externalId
            /\ c.response.event.externalId # Null
            /\ c.response.event.meetLink =
                  (IF c.googleEvent.meetLink # Null THEN c.googleEvent.meetLink
                   ELSE IF Truthy(OptTrim(c.body.meetLink))
                        THEN OptTrim(c.body.meetLink) ELSE Null)
            /\ c.response.event \notin c.events0
            /\ events = c.events0 \cup {c.response.event}

\* a second publish whose remote event carries no link has been answered
\* with the request's meet link
C13_Witness ==
    \E p \in Procs :
        LET c == calls[p] IN
        /\ PublishSucceeded(c)
        /\ c.status = 201
        /\ c.googleEvent.meetLink = Null
        /\ c.response.event.meetLink = "https://meet.example.com/m"
        /\ c.response.event.externalId = "n2"

\* C14: for every answered publish, googleSyncError is null exactly when
\* the returned row has source "app+google" and an external id.
C14_ErrorIffNotPublished ==
    \A p \in Procs :
        LET c == calls[p] IN
        (c.op = "publish" /\ c.pc = "done" /\ c.status = 201) =>
            (c.response.googleSyncError = Null
                <=> (c.response.event.source = "app+google"
                        /\ c.response.event.externalId # Null))

\* a publish has been answered with an error and a row of source "app",
\* after one answered without error and a row of source "app+google"
C14_Witness ==
    \E p \in Procs :
        LET c == calls[p] IN
        /\ c.op = "publish" /\ c.pc = "done" /\ c.status = 201
        /\ c.response.googleSyncError # Null
        /\ c.response.event.source = "app"
        /\ \E r \in c.events0 : r.source = "app+google" /\ r.userId = c.user

\* the sync pass is over and its token or its listing failed
SyncFailed(c) ==
    /\ c.op = "sync"
    /\ c.pc = "done"
    /\ (c.tokenError # Null \/ c.details # Null)

\* C15: a sync pass whose token acquisition (account not connected,
\* refresh token missing, refresh rejected) or whose listing request fails
\* is answered with that error alone, no counters, and leaves the local
\* event store as it was.
C15_SyncAborts ==
    \A p \in Procs :
        LET c == calls[p] IN
        SyncFailed(c) =>
            /\ c.status = 500
            /\ c.response \in
                  { [error |-> "Google account not connected"],
                    [error |-> "Google refresh token missing. Re-authenticate with Google."],
                    [error |-> "Failed to refresh Google token: " \o c.details],
                    [error |-> "Failed to fetch Google Calendar events: " \o c.details] }
            /\ (c.listRequests = 1) <=>
                  (c.response = [error |-> "Failed to fetch Google Calendar events: "
                                              \o c.details])
            /\ c.tokenError # Null => c.response = [error |-> c.tokenError]
            /\ c.syncedCount = 0
            /\ events = c.events0

\* a pass whose listing was rejected has been answered, the store holding
\* the rows of an earlier pass
C15_Witness ==
    \E p \in Procs :
        LET c == calls[p] IN
        /\ SyncFailed(c)
        /\ c.listRequests = 1
        /\ c.status = 500
        /\ RowsOf(c.events0, c.user) # {}

\* the positions of the listing whose items the pass upserts
EligibleAt(items) ==
    {i \in DOMAIN items :
        ~SkippedCancelled(items[i]) /\ ~SkippedInvalidTime(items[i])}

\* the row r carries the projection of the remote item, location apart
Projects(r, event) ==
    /\ r.title = (IF Truthy(event.summary) THEN event.summary ELSE "Untitled event")
    /\ r.startAt = parseDateTime(event.start)
    /\ r.endAt = parseDateTime(event.end)
    /\ r.participants = AttendeeEmails(event.attendees, 1)
    /\ r.meetLink = getGoogleMeetOrLocationLink(event)
    /\ r.source = "google"

\* after the pass the key of the item has one row, which is the row the
\* pass found under the key, updated, or a row under a new id
UpsertedOnce(c, event) ==
    LET old == Keyed(c.events0, c.user, event.id)
        new == Keyed(events, c.user, event.id)
    IN  /\ Cardinality(new) = 1
        /\ \A r \in new :
              /\ Projects(r, event)
              /\ IF old = {}
                 THEN r.id \notin {x.id : x \in c.events0}
                 ELSE r.id \in {x.id : x \in old}

\* the pass added one row for each key it did not find
GrewByUnseen(c) ==
    Cardinality(events) = Cardinality(c.events0)
        + Cardinality({i \in EligibleAt(c.googleEvents) :
              Keyed(c.events0, c.user, c.googleEvents[i].id) = {}})

\* an answered pass has upserted each eligible item once: identity kept on
\* update, one new row on create, every field but location overwritten
UpsertByKey ==
    \A p \in Procs :
        LET c == calls[p] IN
        SyncDone(c) =>
            /\ \A i \in EligibleAt(c.googleEvents) : UpsertedOnce(c, c.googleEvents[i])
            /\ GrewByUnseen(c)

\* C16: for each eligible item the upsert keyed on (userId, externalId)
\* updates the one row with that key, keeping its id and external id and
\* overwriting title, startAt, endAt, participants, location, meetLink and
\* source, or creates exactly one new row; the table grows by the number
\* of external ids not seen before.
C16_UpsertOverwrites ==
    \A p \in Procs :
        LET c == calls[p] IN
        SyncDone(c) =>
            /\ \A i \in EligibleAt(c.googleEvents) :
                  /\ UpsertedOnce(c, c.googleEvents[i])
                  /\ \A r \in Keyed(events, c.user, c.googleEvents[i].id) :
                        r.location = (IF c.googleEvents[i].location = Undefined
                                      THEN Null ELSE c.googleEvents[i].location)
            /\ GrewByUnseen(c)

\* a pass has updated a row that had a location from an item that has
\* none, and the row still has the location
C16_Witness ==
    \E p \in Procs :
        LET c == calls[p] IN
        /\ SyncDone(c)
        /\ \E i \in EligibleAt(c.googleEvents) :
              /\ c.googleEvents[i].location = Undefined
              /\ \E old \in Keyed(c.events0, c.user, c.googleEvents[i].id) :
                    /\ old.location = "Room 1"
                    /\ \E r \in events :
                          /\ r.id = old.id
                          /\ r.title = "Untitled event"
                          /\ r.location = "Room 1"

\* the invocation of p is a sync pass about to upsert an item under the
\* key of row r
UpsertsKeyOf(p, r) ==
    LET c == calls[p] IN
    /\ c.op = "sync"
    /\ c.pc = "loop"
    /\ c.idx \in EligibleAt(c.googleEvents)
    /\ c.user = r.userId
    /\ c.googleEvents[c.idx].id = r.externalId

\* C17: no step of a sync pass deletes a row: the ids in the table only
\* grow, and a row that no pass is upserting under its key (its external
\* id is not listed, is listed as cancelled, is another user's, or is
\* null) stays exactly as it is.
C17_NoDeletion ==
    [][\A r \in events :
          /\ \E r2 \in events' : r2.id = r.id
          /\ (\A p \in Procs : ~UpsertsKeyOf(p, r)) => r \in events']_vars

\* a pass that stored one item has been answered, a row of the user
\* without external id still as it was
C17_Witness ==
    \E p \in Procs :
        LET c == calls[p] IN
        /\ SyncDone(c)
        /\ c.syncedCount = 1
        /\ \E r \in c.events0 :
              /\ r.userId = c.user
              /\ r.externalId = Null
              /\ r \in events
        /\ Cardinality(events) = Cardinality(c.events0) + 1

\* the publish has passed validation
Normalized(c) ==
    c.op = "publish" /\ c.pc \in {"token", "refresh", "write", "create", "local", "done"}
        /\ ~(c.pc = "done" /\ c.status = 400)

\* no entry occurs twice
NoDuplicates(sq) == \A i, j \in DOMAIN sq : sq[i] = sq[j] => i = j

\* every entry is trimmed and not empty
TrimmedNonEmpty(sq) == \A i \in DOMAIN sq : sq[i] # "" /\ Trim(sq[i]) = sq[i]

\* the attendees of the create request's JSON body
PayloadAttendees(c) == CreatedEvent("n0", c, CHOOSE l \in CreatedLinks : TRUE).attendees

\* the participants of a publish are trimmed and not empty, and the same
\* sequence goes to the remote payload and to the local row
ParticipantsTrimmed ==
    \A p \in Procs :
        LET c == calls[p] IN
        Normalized(c) =>
            /\ TrimmedNonEmpty(c.participants)
            /\ PayloadAttendees(c) = [i \in DOMAIN c.participants |->
                                          [email |-> c.participants[i]]]
            /\ (c.pc = "done" /\ c.status = 201) =>
                  c.response.event.participants = c.participants

\* C18: the publish normalizes the participants, a comma-separated string
\* or a list, into a sequence whose entries are trimmed, not empty and
\* occur at most once, and uses this sequence for the remote payload and
\* the local row.
C18_ParticipantsDeduplicated ==
    \A p \in Procs :
        LET c == calls[p] IN
        Normalized(c) =>
            /\ TrimmedNonEmpty(c.participants)
            /\ NoDuplicates(c.participants)
            /\ PayloadAttendees(c) = [i \in DOMAIN c.participants |->
                                          [email |-> c.participants[i]]]
            /\ (c.pc = "done" /\ c.status = 201) =>
                  c.response.event.participants = c.participants

\* a publish of a list naming one address twice has been answered with a
\* row that names it twice
C18_Witness ==
    \E p \in Procs :
        LET c == calls[p] IN
        /\ c.op = "publish" /\ c.pc = "done" /\ c.status = 201
        /\ c.body.participants = [kind |-> "array", value |-> <<" a@x.com ", "a@x.com", " ">>]
        /\ c.response.event.participants = <<"a@x.com", "a@x.com">>

\* the two passes of SpecSyncs are answered 200 over the same listing
BothPassesDone ==
    /\ SyncDone(calls["p1"])
    /\ SyncDone(calls["p2"])
    /\ calls["p1"].user = calls["p2"].user
    /\ calls["p1"].googleEvents = calls["p2"].googleEvents

\* the second pass started before the first had stored its last item
Overlapped ==
    Cardinality(RowsOf(calls["p2"].events0, calls["p2"].user))
        < Cardinality(EligibleAt(calls["p1"].googleEvents))

\* C19: however two sync passes of one user over the same listing
\* interleave, each upsert being atomic on (userId, externalId), the
\* table ends with exactly one row per eligible external id and both
\* passes report the same synced count.
C19_ConcurrentSyncs ==
    BothPassesDone =>
        LET items == calls["p1"].googleEvents
            rows == RowsOf(events, calls["p1"].user)
        IN  /\ calls["p1"].response.synced = calls["p2"].response.synced
            /\ calls["p1"].response.synced = Num(Cardinality(EligibleAt(items)))
            /\ Cardinality(rows) = Cardinality(EligibleAt(items))
            /\ {r.externalId : r \in rows} = {items[i].id : i \in EligibleAt(items)}
            /\ \A i \in EligibleAt(items) :
                  Cardinality(Keyed(events, calls["p1"].user, items[i].id)) = 1

\* two passes that overlapped over a listing of two eligible items are
\* both answered
C19_Witness ==
    /\ BothPassesDone
    /\ Overlapped
    /\ Cardinality(EligibleAt(calls["p1"].googleEvents)) = 2
    /\ calls["p2"].events0 = {}

\* the refresh of the invocation has been granted
Granted(c) == c.payload # {}

\* the payload the token endpoint granted the invocation
PayloadOf(c) == CHOOSE x \in c.payload : TRUE

\* C20: two invocations of one user that both find the access token stale
\* each make their own refresh, one token request and one write each; each
\* returns the access token it was itself granted, and each write stores
\* the writer's access token and expiry, so the row holds those of the
\* refresh that wrote last.
C20_RefreshRace ==
    [][\A p \in Procs :
          LET c == calls[p]
              d == calls'[p]
          IN  /\ d.tokenRequests <= 1
              /\ d.accountWrites <= 1
              /\ (d.accountWrites = 1) =>
                    /\ d.tokenRequests = 1
                    /\ Granted(d)
                    /\ d.accessToken = PayloadOf(d).access_token
              /\ (Granted(calls'["p1"]) /\ Granted(calls'["p2"])) =>
                    PayloadOf(calls'["p1"]).access_token
                        # PayloadOf(calls'["p2"]).access_token
              /\ (c.accountWrites = 0 /\ d.accountWrites = 1) =>
                    \A row \in accounts'[c.user] :
                        /\ row.access_token = PayloadOf(c).access_token
                        /\ row.expires_at
                              = Num(c.nowSeconds + PayloadOf(c).expires_in)
              /\ (accounts' # accounts) =>
                    \E q \in Procs :
                        calls[q].accountWrites = 0 /\ calls'[q].accountWrites = 1]_vars

\* both passes found the same stale row and refreshed; the pass granted
\* the second token wrote first, so the row holds the first token
C20_Witness ==
    /\ calls["p1"].accounts0 = calls["p2"].accounts0
    /\ calls["p1"].accountWrites = 1
    /\ calls["p2"].accountWrites = 1
    /\ calls["p1"].accessToken = "at1"
    /\ calls["p2"].accessToken = "at2"
    /\ \E row \in accounts[calls["p1"].user] :
          /\ row.access_token = "at1"
          /\ row.expires_at = Num(calls["p1"].nowSeconds + PayloadOf(calls["p1"]).expires_in)

\* C21: a sync pass applies its upserts one at a time in the order of the
\* listing: at every point of the pass, one that stopped at a failed upsert
\* included, the eligible items before the loop position are stored and
\* those from the loop position on are as the pass found them.
C21_PrefixApplied ==
    \A p \in Procs :
        LET c == calls[p] IN
        (c.op = "sync" /\ HasListed(c)) =>
            \A i \in EligibleAt(c.googleEvents) :
                IF i < c.idx
                THEN /\ Cardinality(Keyed(events, c.user, c.googleEvents[i].id)) = 1
                     /\ \A r \in Keyed(events, c.user, c.googleEvents[i].id) :
                           Projects(r, c.googleEvents[i])
                ELSE Keyed(events, c.user, c.googleEvents[i].id)
                        = Keyed(c.events0, c.user, c.googleEvents[i].id)

\* a pass has stored its first item and stopped at its second, whose
\* start the table rejects
C21_Witness ==
    \E p \in Procs :
        LET c == calls[p] IN
        /\ c.op = "sync" /\ c.pc = "done" /\ c.status = 500
        /\ c.idx = 2
        /\ c.syncedCount = 1
        /\ c.googleEvents[2].start.dateTime = "tomorrow"
        /\ Keyed(events, c.user, c.googleEvents[1].id) # {}
        /\ Keyed(events, c.user, c.googleEvents[2].id) = {}

\* the normalizer has answered
Normalized1(c) == c.op = "normalize" /\ c.pc = "done"

\* the locations that are http:// or https:// URLs
UrlLocations ==
    {"http://example.com/room", "https://example.com/room", "HTTPS://EXAMPLE.COM/ROOM"}

\* C22: getGoogleMeetOrLocationLink gives the meeting-room link when
\* there is one, else the location when it is an http(s) URL, else the
\* web link when there is one, else null, for every combination of the
\* fields; the meeting-room link wins over a URL location.
C22_LinkPrecedence ==
    \A p \in Procs :
        LET c == calls[p]
            e == c.body
        IN  Normalized1(c) =>
              c.response.meetLink =
                 (IF e.hangoutLink # Undefined THEN e.hangoutLink
                  ELSE IF e.location \in UrlLocations THEN e.location
                  ELSE IF e.htmlLink # Undefined THEN e.htmlLink
                  ELSE Null)

\* an event with a meeting-room link and an http:// location has been
\* resolved to the meeting-room link
C22_Witness ==
    \E p \in Procs :
        /\ Normalized1(calls[p])
        /\ calls[p].body.hangoutLink = "https://meet.google.com/abc"
        /\ calls[p].body.location = "http://example.com/room"
        /\ calls[p].response.meetLink = "https://meet.google.com/abc"

\* C23: parseDateTime gives the precise timestamp when there is one, else
\* UTC midnight of the date-only value when there is one, and null exactly
\* when the date spec is absent or has neither field; it never makes up
\* an instant.
C23_InstantResolved ==
    \A p \in Procs :
        LET c == calls[p]
            v == c.body.start
            r == c.response.start
        IN  Normalized1(c) =>
              /\ (r = [kind |-> "null"]) <=>
                    (v = AbsentDT \/ (v.dateTime = Undefined /\ v.date = Undefined))
              /\ (v # AbsentDT /\ v.dateTime = "2024-01-02T09:00:00Z") =>
                    r = [kind |-> "date", t |-> 540]
              /\ (v # AbsentDT /\ v.dateTime = "tomorrow") =>
                    r = [kind |-> "invalid"]
              /\ (v # AbsentDT /\ v.dateTime = Undefined /\ v.date = "2024-01-02") =>
                    r = [kind |-> "date", t |-> 0]
              /\ (v # AbsentDT /\ v.dateTime = Undefined /\ v.date = "2024-01-03") =>
                    r = [kind |-> "date", t |-> 1440]

\* a date-only start has been resolved to UTC midnight, the start of the
\* day counted in minutes from 2024-01-02T00:00Z
C23_Witness ==
    \E p \in Procs :
        /\ Normalized1(calls[p])
        /\ calls[p].body.start = [dateTime |-> Undefined, date |-> "2024-01-03"]
        /\ calls[p].response.start = [kind |-> "date", t |-> 1440]

\* the drafts with a blank or missing title, a missing or unparseable
\* start or end, or an end not after the start
MalformedBodies ==
    { BodyBlankTitle, BodyNoTitle, BodyNoEnd, BodyBadStart,
      BodyEndIsStart, BodyEndBeforeStart }

\* C24: a draft with a blank title, a missing or unparseable start or end,
\* or an end not strictly after the start is answered 400 with a
\* validation error before anything else runs: no token lookup, no request
\* to the provider, no write to the account row, no local row.
C24_RejectedBeforePublish ==
    \A p \in Procs :
        LET c == calls[p] IN
        (c.op = "publish" /\ c.body \in MalformedBodies) =>
            /\ c.pc = "done"
            /\ c.status = 400
            /\ c.response \in { [error |-> "Title is required"],
                                [error |-> "Valid start and end time are required"],
                                [error |-> "End time must be after start time"] }
            /\ (c.body \in {BodyEndIsStart, BodyEndBeforeStart}) <=>
                  (c.response = [error |-> "End time must be after start time"])
            /\ c.account = {}
            /\ c.accessToken = Null /\ c.tokenError = Null
            /\ c.tokenRequests = 0 /\ c.accountWrites = 0
            /\ c.createRequests = 0
            /\ c.googleEvent = NoEvent
            /\ accounts[c.user] = c.accounts0
            /\ events = c.events0

\* a draft whose end equals its start has been answered 400, the user
\* connected and the table not empty
C24_Witness ==
    \E p \in Procs :
        LET c == calls[p] IN
        /\ c.op = "publish" /\ c.pc = "done" /\ c.status = 400
        /\ c.body = BodyEndIsStart
        /\ c.accounts0 # {}
        /\ c.events0 # {}

\* C25: nothing is retried: a sync pass makes at most one token request
\* and one list request, a publish at most one token request and one
\* create request, whatever their outcome, and a failed request ends the
\* remote part of the invocation.
C25_NoRetry ==
    \A p \in Procs :
        LET c == calls[p] IN
        /\ c.tokenRequests <= 1
        /\ c.listRequests <= 1
        /\ c.createRequests <= 1
        /\ c.accountWrites <= c.tokenRequests
        /\ c.listRequests + c.createRequests <= 1
        /\ c.op = "sync" => c.createRequests = 0
        /\ c.op = "publish" => c.listRequests = 0
        /\ (c.details # Null /\ c.op = "sync") => c.pc = "done"
        /\ (c.details # Null /\ c.op = "publish") => c.pc \in {"local", "done"}

\* a publish whose create request was rejected after a granted refresh
\* has been answered: one token request, one create request
C25_Witness ==
    \E p \in Procs :
        LET c == calls[p] IN
        /\ c.op = "publish" /\ c.pc = "done"
        /\ c.tokenRequests = 1
        /\ c.createRequests = 1
        /\ c.googleSyncError = "Failed to create Google Calendar event: invalid_grant"

\* C26: however a publish interleaves with a sync pass of the same user, a
\* pass that lists and stores the new remote event between the remote
\* create and the local write included, the publish is answered with a
\* local row for the draft and no error, and the table ends with exactly
\* one row for the new external id.
C26_PublishSurvivesSync ==
    \A p \in Procs :
        LET c == calls[p] IN
        PublishSucceeded(c) =>
            /\ c.status = 201
            /\ Cardinality(Keyed(events, c.user, c.googleEvent.externalId)) = 1

\* the pass stored the new remote event before the local write, and the
\* publish has been answered 500, its only row the one the pass made
C26_Witness ==
    \E p \in Procs :
        LET c == calls[p] IN
        /\ PublishSucceeded(c)
        /\ c.status = 500
        /\ c.response = [error |-> "Unique constraint failed"]
        /\ \A r \in Keyed(events, c.user, c.googleEvent.externalId) :
              r.source = "google"
        /\ Cardinality(Keyed(events, c.user, c.googleEvent.externalId)) = 1

\* the two invocations have refreshed and written the row of their user
BothRefreshed ==
    /\ calls["p1"].user = calls["p2"].user
    /\ \A p \in Procs : calls[p].accountWrites = 1 /\ Granted(calls[p])

\* the serials of the refresh tokens the provider issued to the two
IssuedRefreshSerials ==
    {n \in 1..issued :
        \E p \in Procs : PayloadOf(calls[p]).refresh_token = RefreshTokenNo(n)}

\* the serial of the last of them
LastRefreshSerial ==
    CHOOSE n \in IssuedRefreshSerials : \A m \in IssuedRefreshSerials : m <= n

\* C27: once concurrent refreshes of one user have all completed, the row
\* holds the refresh token the provider issued last; a refresh whose
\* response carried none does not put back the older one it read at its
\* start over a newer one already stored.
C27_NewestRefreshToken ==
    (BothRefreshed /\ IssuedRefreshSerials # {}) =>
        \A row \in accounts[calls["p1"].user] :
            row.refresh_token = RefreshTokenNo(LastRefreshSerial)

\* both read the row holding rt0; one was granted rt1 and stored it, then
\* the other, granted no refresh token, stored rt0 again
C27_Witness ==
    /\ BothRefreshed
    /\ calls["p1"].accounts0 = calls["p2"].accounts0
    /\ IssuedRefreshSerials = {1}
    /\ \E p \in Procs : PayloadOf(calls[p]).refresh_token = Undefined
    /\ \A row \in accounts[calls["p1"].user] : row.refresh_token = "rt0"

\* C28: every row has source "app" exactly when it has no external id, and
\* source "google" or "app+google" exactly when it has one.
C28_SourceMatchesExternalId ==
    \A r \in events :
        /\ r.source \in {"app", "google", "app+google"}
        /\ (r.source = "app") <=> (r.externalId = Null)
        /\ (r.source \in {"google", "app+google"}) <=> (r.externalId # Null)

\* the table holds a row the publish stored and a row the sync stored
C28_Witness ==
    /\ \E r \in events : r.source = "app+google" /\ r.externalId = "n1"
    /\ \E r \in events : r.source = "google" /\ r.externalId = "e1"

\* C29: after a sync pass every row whose external id the listing gave as
\* a non-cancelled item with start and end has source "google", a row the
\* publish stored as "app+google" included.
C29_SourceGoogleAfterSync ==
    \A p \in Procs :
        LET c == calls[p] IN
        SyncDone(c) =>
            \A i \in EligibleAt(c.googleEvents) :
                /\ Keyed(events, c.user, c.googleEvents[i].id) # {}
                /\ \A r \in Keyed(events, c.user, c.googleEvents[i].id) :
                      r.source = "google"

\* a pass has matched a row the publish stored as "app+google"
C29_Witness ==
    \E p \in Procs :
        LET c == calls[p] IN
        /\ SyncDone(c)
        /\ \E i \in EligibleAt(c.googleEvents) :
              /\ \E old \in Keyed(c.events0, c.user, c.googleEvents[i].id) :
                    old.source = "app+google"
              /\ \E r \in Keyed(events, c.user, c.googleEvents[i].id) :
                    r.source = "google"

\* the instant the token granted to the invocation stops being valid
TrueExpiry(c) == c.grantedAt + PayloadOf(c).expires_in

\* the invocation returned the row's access token without a refresh
ServedFromCache(c) ==
    /\ LookedUp(c)
    /\ c.tokenError = Null
    /\ c.tokenRequests = 0

\* C30: under a clock that may advance while the refresh is in flight, the
\* expiry a refresh stores is the time read before the request plus
\* expires_in and never exceeds the time of the response plus expires_in;
\* a refreshed token returned from the cache has at least 60 seconds of
\* validity left when it is returned.
C30_StoredExpiryIsSafe ==
    \A q \in Procs :
        LET g == calls[q] IN
        Granted(g) =>
            /\ g.nowSeconds <= g.grantedAt
            /\ \A row \in accounts[g.user] :
                  row.access_token = PayloadOf(g).access_token =>
                      /\ row.expires_at
                            = Num(g.nowSeconds + PayloadOf(g).expires_in)
                      /\ OrZero(row.expires_at) <= TrueExpiry(g)
            /\ \A p \in Procs :
                  (/\ ServedFromCache(calls[p])
                   /\ calls[p].accessToken = PayloadOf(g).access_token) =>
                      TrueExpiry(g) - calls[p].nowSeconds >= 60

\* the clock advanced while a refresh was in flight, and the token that
\* refresh stored was later returned from the cache
C30_Witness ==
    \E p, q \in Procs :
        LET g == calls[q] IN
        /\ Granted(g)
        /\ g.grantedAt > g.nowSeconds
        /\ ServedFromCache(calls[p])
        /\ calls[p].accessToken = PayloadOf(g).access_token
        /\ calls[p].nowSeconds >= g.grantedAt

====
